---- MODULE Spec2Model ----
(***************************************************************************)
(* Model of the search service of the recruiting-candidate search tool:    *)
(* SearchService (backend/app/services/search_service.py), the provider    *)
(* wrapper LinkedInCandidateFinder (backend/app/core/finder.py) and the    *)
(* REST routes (backend/app/api/routes/search.py, candidates.py), and of    *)
(* the command-line utilities built on the wrapper (backend/app/core/      *)
(* utilities.py): BatchSearchManager, ProgressMonitor, CandidateFilter and *)
(* CandidateExporter.                                                      *)
(*                                                                         *)
(* Python's None is the empty tuple; an Optional value is None or a        *)
(* one-element tuple.  A score is None or a reduced fraction <<n, d>>      *)
(* standing for the number n/d, so that scores are compared exactly.       *)
(* The pass-through fields of a candidate (url, title, status, properties, *)
(* enrichments, created_at) are not read by any operation modelled here    *)
(* and are left out of the records.                                        *)
(***************************************************************************)
EXTENDS Integers, Sequences, FiniteSets, TLC

\* ------------------------------------------------------------ bounds
MaxSearches == 2      \* searches created in one run of the process
MaxItems == 2         \* elements the provider hands back, over all jobs
MaxCrit == 2          \* criteria results of one item
MaxCount == 2         \* largest count a request asks for (the schema allows 1..100)
MaxLen == 3           \* candidates in a list handed to a filter
MaxRows == 2          \* candidates in a list handed to the exporter
MaxCallbacks == 2     \* callbacks registered with one ProgressMonitor
MaxTimeout == 2       \* largest timeout handed to monitor, in clock ticks
MaxInterval == 1      \* largest interval handed to monitor, in clock ticks

None == <<>>
Some(x) == <<x>>

\* SearchStatus, schemas.py
PENDING == "pending"
IN_PROGRESS == "in_progress"
COMPLETED == "completed"
FAILED == "failed"

HTTP_200_OK == 200
HTTP_201_CREATED == 201
HTTP_404_NOT_FOUND == 404

\* ------------------------------------------------------------ inputs
Uuids == {<<"uuid", i>> : i \in 1..(MaxSearches + 1)}
Query(i) == <<"query", i>>
MinScores == {0, 50}
MinScoreArgs == {None} \cup {Some(m) : m \in MinScores}

BoundedSeq(S, n) == UNION {[1..k -> S] : k \in 0..n}

\* What the provider may hand back.  A criteria result whose "passed" key is
\* missing is written with the default the conversion gives it (False); a
\* verification that is absent, None or empty is present = FALSE.
RawCriteria == [passed : BOOLEAN]
NoVerification == [present |-> FALSE, passed |-> FALSE, criteria_results |-> <<>>]
RawVerifications ==
    {NoVerification}
    \cup {[present |-> TRUE, passed |-> p, criteria_results |-> cr] :
            p \in BOOLEAN, cr \in BoundedSeq(RawCriteria, MaxCrit)}
\* kind = "dict": a mapping with .get; kind = "other": anything else the
\* iteration of the returned object may yield (it has no .get).
NonMapping == [kind |-> "other", verification |-> NoVerification]
RawElements == {[kind |-> "dict", verification |-> v] : v \in RawVerifications}
                 \cup {NonMapping}
\* the inputs of the conversion taken alone
RawResults == BoundedSeq(RawElements, MaxItems)

\* The verifications the provider hands back to the running service: no
\* verification, no criteria, and criteria giving the scores 0, 50 and 100,
\* with the provider's own passed flag both ways.
Verification(p, flags) ==
    [present |-> TRUE, passed |-> p,
     criteria_results |-> [i \in 1..Len(flags) |-> [passed |-> flags[i]]]]
ProviderVerifications ==
    {NoVerification,
     Verification(TRUE, <<>>),
     Verification(FALSE, <<FALSE>>),
     Verification(TRUE, <<TRUE>>),
     Verification(FALSE, <<TRUE, FALSE>>)}
ProviderElements == {[kind |-> "dict", verification |-> v] : v \in ProviderVerifications}
                      \cup {NonMapping}
ProviderResults == BoundedSeq(ProviderElements, MaxItems)

WebsetId(n) == <<"webset", n>>
ItemId(w, i) == <<"item", w, i>>

\* ------------------------------------------------------------ scores
RECURSIVE Gcd(_, _)
Gcd(a, b) == IF b = 0 THEN a ELSE Gcd(b, a % b)

Fraction(n, d) == <<n \div Gcd(n, d), d \div Gcd(n, d)>>

RECURSIVE CountPassed(_)
CountPassed(crs) ==
    IF crs = <<>> THEN 0
    ELSE (IF Head(crs).passed THEN 1 ELSE 0) + CountPassed(Tail(crs))

\* search_service.py 174-178
ScoreOf_Unscaled(verification) ==
    IF verification # None /\ verification[1].criteria_results # <<>>
    THEN Fraction(CountPassed(verification[1].criteria_results),
                  Len(verification[1].criteria_results))
    ELSE None

ScoreOf(verification) ==
    IF verification # None /\ verification[1].criteria_results # <<>>
    THEN LET passed_count == CountPassed(verification[1].criteria_results)
             total_count == Len(verification[1].criteria_results)
         IN  IF total_count > 0 THEN Fraction(100 * passed_count, total_count)
             ELSE Fraction(0, 1)
    ELSE None

\* key=lambda x: x.score or 0
SortKey(c) == IF c.score = None \/ c.score[1] = 0 THEN <<0, 1>> ELSE c.score

FracLess(a, b) == a[1] * b[2] < b[1] * a[2]
FracGeq(a, b) == ~FracLess(a, b)

\* list.sort(key=..., reverse=True): stable, highest key first
RECURSIVE InsertByScore(_, _)
InsertByScore(sorted, c) ==
    IF sorted = <<>> THEN <<c>>
    ELSE IF FracLess(SortKey(Head(sorted)), SortKey(c)) THEN <<c>> \o sorted
    ELSE <<Head(sorted)>> \o InsertByScore(Tail(sorted), c)

RECURSIVE SortFrom(_, _)
SortFrom(sorted, rest) ==
    IF rest = <<>> THEN sorted
    ELSE SortFrom(InsertByScore(sorted, Head(rest)), Tail(rest))

SortByScore_None(candidates) == candidates

SortByScore(candidates) == SortFrom(<<>>, candidates)

\* ------------------------------------------------------------ conversion
\* search_service.py 134-148: the VerificationResult of one item
VerificationOf(item) ==
    IF item.verification.present
    THEN Some([passed |-> item.verification.passed,
               criteria_results |-> item.verification.criteria_results])
    ELSE None

\* search_service.py 132-192: one Candidate
CandidateOf(item, id) ==
    [id |-> id,
     verification |-> VerificationOf(item),
     score |-> ScoreOf(VerificationOf(item))]

\* item.get(...) raises on an element that is no mapping
ConversionRaises(results) == \E i \in 1..Len(results) : results[i].kind # "dict"

\* search_service.py 128-197
_convert_results_to_candidates(results, w) ==
    SortByScore([i \in 1..Len(results) |-> CandidateOf(results[i], ItemId(w, i))])

\* ------------------------------------------------------------ settings
\* config.py: EXA_CHECK_INTERVAL; finder.py: default timeout of wait_for_results
EXA_CHECK_INTERVAL == 10
DEFAULT_WAIT_TIMEOUT == 3600
EXA_TIMEOUT == 3600

\* config.py 33-37: the defaults, and 66-68: Settings() reads the environment
\* and .env, so each field may hold another integer
DefaultSettings ==
    [EXA_TIMEOUT |-> EXA_TIMEOUT, EXA_CHECK_INTERVAL |-> EXA_CHECK_INTERVAL]

ConfiguredSettings ==
    [EXA_TIMEOUT : {EXA_TIMEOUT, 60}, EXA_CHECK_INTERVAL : {EXA_CHECK_INTERVAL, 5}]

\* ------------------------------------------------------------ provider wrapper
\* finder.py 163-168: the dictionary create_candidate_search returns
WebsetInfo(id, search_query) == <<"webset_info", id, search_query>>

\* finder.py 150-157: exa.websets.create(params=...)
CreateCall(criteria) ==
    [op |-> "create", arg |-> <<criteria.query, criteria.count>>, timeout |-> None]

\* finder.py 196-199: exa.websets.wait_until_idle(webset_id, timeout=timeout);
\* check_interval is accepted and not passed on
WaitCall(webset_id, timeout, check_interval) ==
    [op |-> "wait", arg |-> webset_id, timeout |-> Some(timeout), poll_interval |-> None]

\* ------------------------------------------------------------ state
VARIABLES
    active_searches,   \* SearchService.active_searches: search id -> entry
    order,             \* insertion order of the keys of active_searches
    pc,                \* search id -> where its _run_search task stands
    calls,             \* search id -> the provider calls issued for it, in order
    next_webset,       \* the provider's next job number
    response,          \* the HTTP response of the request being answered
    results_in,        \* the argument of a call of the conversion taken alone
    converted,         \* its outcome, None before the call
    settings           \* config.py: the Settings instance the process loaded

\* The command-line side (core/utilities.py, core/finder.py): one synchronous
\* script, so one frame per class is enough.
VARIABLES
    batch,             \* BatchSearchManager.searches
    bpc,               \* where run_all stands
    fpc,               \* where search_and_wait stands
    exa,               \* the calls made on the provider client, with their outcomes
    ret,               \* what the calls of search_and_wait handed to the script
    callbacks,         \* ProgressMonitor.callbacks
    mpc,               \* where monitor stands
    clock,             \* time.time()
    input,             \* the arguments of a call of a static utility taken alone
    output             \* its outcome, None before the call

utilities == <<batch, bpc, fpc, exa, ret, callbacks, mpc, clock, input, output>>

vars == <<active_searches, order, pc, calls, next_webset, response, results_in, converted, settings, utilities>>
service == <<active_searches, order, pc, calls, next_webset>>

SearchIds == DOMAIN active_searches

Extend(f, k, v) == [x \in (DOMAIN f) \cup {k} |-> IF x = k THEN v ELSE f[x]]

NewEntry_DefaultCount(request) ==
    [status |-> PENDING,
     query |-> request.query,
     count |-> 10,
     webset_id |-> None,
     candidates |-> <<>>,
     error |-> None]

\* search_service.py 69-76
NewEntry(request) ==
    [status |-> PENDING,
     query |-> request.query,
     count |-> request.count,
     webset_id |-> None,
     candidates |-> <<>>,
     error |-> None]

MarkInProgress_Skipped(searches, s) == searches

\* search_service.py 98
MarkInProgress(searches, s) == [searches EXCEPT ![s].status = IN_PROGRESS]

\* search_service.py 107
StoreWebset(searches, s, webset_id) == [searches EXCEPT ![s].webset_id = webset_id]

\* search_service.py 120-121 (no await between the two assignments)
StoreCompleted_StatusOnly(searches, s, candidates) ==
    [searches EXCEPT ![s].status = COMPLETED]

StoreCompleted(searches, s, candidates) ==
    [searches EXCEPT ![s].status = COMPLETED, ![s].candidates = candidates]

\* search_service.py 123-126
StoreFailed_Swallowed(searches, s, message) == searches

StoreFailed_ErrorOnly(searches, s, message) ==
    [searches EXCEPT ![s].error = Some(message)]

StoreFailed(searches, s, message) ==
    [searches EXCEPT ![s].status = FAILED, ![s].error = Some(message)]

RECURSIVE TotalStored(_, _)
TotalStored(searches, ids) ==
    IF ids = <<>> THEN 0
    ELSE Len(searches[Head(ids)].candidates) + TotalStored(searches, Tail(ids))

NoResponse == [op |-> "none", args |-> None, code |-> 0, body |-> None]

\* nothing of the command-line side has been constructed or called
UtilitiesIdle ==
    /\ batch = <<>>
    /\ bpc = [pc |-> "idle"]
    /\ fpc = [pc |-> "idle"]
    /\ exa = <<>>
    /\ ret = <<>>
    /\ callbacks = <<>>
    /\ mpc = [pc |-> "idle"]
    /\ clock = 0
    /\ input = None
    /\ output = None

Init ==
    /\ active_searches = <<>>
    /\ order = <<>>
    /\ pc = <<>>
    /\ calls = <<>>
    /\ next_webset = 1
    /\ response = NoResponse
    /\ results_in = <<>>
    /\ converted = None
    /\ settings = DefaultSettings
    /\ UtilitiesIdle

\* ------------------------------------------------------------ create
\* search_service.py 81-87: the SearchResponse
SearchResponse(search_id, request) ==
    [search_id |-> search_id, status |-> PENDING,
     query |-> request.query, count |-> request.count]

Uuid4_Repeating(searches) == <<"uuid", 1>>

\* uuid.uuid4(): an identifier that no earlier call has returned (the pool is
\* drawn from in a fixed order; which fresh identifier comes makes no difference)
Uuid4(searches) == <<"uuid", Cardinality(DOMAIN searches) + 1>>

\* POST /search -> SearchService.create_search.  The handler has no await
\* after create_task, so the task it schedules first runs after it returned.
CreateSearch(request, search_id) ==
    /\ response = NoResponse
    /\ Len(order) < MaxSearches
    /\ search_id = Uuid4(active_searches)
    /\ active_searches' = Extend(active_searches, search_id, NewEntry(request))
    /\ order' = Append(order, search_id)
    /\ pc' = Extend(pc, search_id, "scheduled")
    /\ calls' = Extend(calls, search_id, <<>>)
    /\ response' = [op |-> "create_search", args |-> <<request.query, request.count>>,
                    code |-> HTTP_201_CREATED,
                    body |-> SearchResponse(search_id, request)]
    /\ UNCHANGED <<next_webset, results_in, converted, settings, utilities>>

\* ------------------------------------------------------------ _run_search
\* search_service.py 96-105: up to the first await
RunStart(s) ==
    /\ pc[s] = "scheduled"
    /\ active_searches' = MarkInProgress(active_searches, s)
    /\ calls' = [calls EXCEPT ![s] = Append(@, CreateCall(active_searches[s]))]
    /\ pc' = [pc EXCEPT ![s] = "creating"]
    /\ UNCHANGED <<order, next_webset, response, results_in, converted, settings, utilities>>

\* search_service.py 101-114: the create call returned; up to the second await
CreateReturns(s) ==
    /\ pc[s] = "creating"
    /\ LET webset_id == WebsetInfo(WebsetId(next_webset), active_searches[s].query)
       IN  /\ active_searches' = StoreWebset(active_searches, s, webset_id)
           /\ calls' = [calls EXCEPT ![s] =
                          Append(@, WaitCall(webset_id, DEFAULT_WAIT_TIMEOUT,
                                             settings.EXA_CHECK_INTERVAL))]
    /\ next_webset' = next_webset + 1
    /\ pc' = [pc EXCEPT ![s] = "waiting"]
    /\ UNCHANGED <<order, response, results_in, converted, settings, utilities>>

CreateRaises_Retry(s) ==
    /\ pc[s] = "creating"
    /\ Len(calls[s]) < 3
    /\ calls' = [calls EXCEPT ![s] = Append(@, CreateCall(active_searches[s]))]
    /\ UNCHANGED <<active_searches, order, pc, next_webset, response, results_in,
                   converted, settings, utilities>>

\* search_service.py 123-126: the create call raised
CreateRaises(s) ==
    /\ pc[s] = "creating"
    /\ active_searches' = StoreFailed(active_searches, s, "create failed")
    /\ pc' = [pc EXCEPT ![s] = "done"]
    /\ UNCHANGED <<order, calls, next_webset, response, results_in, converted, settings, utilities>>

\* search_service.py 110-126: the wait call returned an object whose iteration
\* yields `results`; conversion, then the two stores, or the except branch
WaitReturns(s, results) ==
    /\ pc[s] = "waiting"
    /\ TotalStored(active_searches, order) + Len(results) <= MaxItems
    /\ active_searches' =
         IF ConversionRaises(results)
         THEN StoreFailed(active_searches, s, "conversion failed")
         ELSE StoreCompleted(active_searches, s,
                _convert_results_to_candidates(results,
                                               active_searches[s].webset_id[2]))
    /\ pc' = [pc EXCEPT ![s] = "done"]
    /\ UNCHANGED <<order, calls, next_webset, response, results_in, converted, settings, utilities>>

\* search_service.py 123-126: the wait call raised
WaitRaises(s) ==
    /\ pc[s] = "waiting"
    /\ active_searches' = StoreFailed(active_searches, s, "wait failed")
    /\ pc' = [pc EXCEPT ![s] = "done"]
    /\ UNCHANGED <<order, calls, next_webset, response, results_in, converted, settings, utilities>>

\* ------------------------------------------------------------ reads
Min_First(a, b) == a

Min(a, b) == IF FracLess(b, a) THEN b ELSE a

\* search_service.py 199-219
get_search_status(searches, search_id) ==
    IF search_id \notin DOMAIN searches THEN None
    ELSE LET search_data == searches[search_id]
             total_found == Len(search_data.candidates)
             total_requested == search_data.count
             progress_percent ==
                 IF total_requested > 0
                 THEN Fraction(100 * total_found, total_requested)
                 ELSE <<0, 1>>
         IN  Some([search_id |-> search_id,
                   status |-> search_data.status,
                   query |-> search_data.query,
                   total_requested |-> total_requested,
                   total_found |-> total_found,
                   candidates |-> search_data.candidates,
                   progress_percent |-> Min(progress_percent, <<100, 1>>)])

list_all_searches_NewestFirst(searches, ids) ==
    LET n == Len(ids)
    IN  [i \in 1..n |-> get_search_status(searches, ids[n + 1 - i])[1]]

\* search_service.py 221-228
RECURSIVE list_all_searches(_, _)
list_all_searches(searches, ids) ==
    IF ids = <<>> THEN <<>>
    ELSE get_search_status(searches, Head(ids)) \o list_all_searches(searches, Tail(ids))

AllCandidates_FirstOnly(searches, ids) ==
    IF ids = <<>> THEN <<>> ELSE searches[Head(ids)].candidates

\* search_service.py 239-241: extend over active_searches.values()
RECURSIVE AllCandidates(_, _)
AllCandidates(searches, ids) ==
    IF ids = <<>> THEN <<>>
    ELSE searches[Head(ids)].candidates \o AllCandidates(searches, Tail(ids))

StoreAfterGetCandidates_ExtendsFirst(searches, ids, search_id) ==
    IF search_id # None \/ ids = <<>> THEN searches
    ELSE [searches EXCEPT ![Head(ids)].candidates = AllCandidates(searches, ids)]

\* search_service.py 232-246, candidates.py 36-44: what active_searches holds
\* after the call.  With a search_id the stored list itself is returned and
\* the route filters it into new lists; without one the stored lists are
\* copied into a new list (extend), and it is that list which is sorted.
StoreAfterGetCandidates(searches, ids, search_id) == searches

\* search_service.py 230-246
get_candidates(searches, ids, search_id) ==
    IF search_id # None
    THEN IF search_id \in DOMAIN searches THEN searches[search_id].candidates ELSE <<>>
    ELSE SortByScore(AllCandidates(searches, ids))

\* `c.score and ...`: None and 0.0 are both false
Truthy(score) == score # None /\ score[1] # 0

\* candidates.py 36-38
FilterMinScore(candidates, min_score) ==
    IF min_score # None
    THEN LET Keep(c) == Truthy(c.score) /\ FracGeq(c.score, <<min_score[1], 1>>)
         IN  SelectSeq(candidates, Keep)
    ELSE candidates

\* candidates.py 40-44
FilterVerified(candidates, verified_only) ==
    IF verified_only
    THEN LET Keep(c) == c.verification # None /\ c.verification[1].passed
         IN  SelectSeq(candidates, Keep)
    ELSE candidates

\* candidates.py 19-49: the CandidateListResponse of GET /candidates
CandidateListResponse(searches, ids, search_id, min_score, verified_only) ==
    LET candidates ==
            FilterVerified(
                FilterMinScore(get_candidates(searches, ids, search_id), min_score),
                verified_only)
    IN  [total |-> Len(candidates), candidates |-> candidates]

\* GET /search/{search_id}, search.py 53-69
GetSearchStatus(search_id) ==
    /\ response = NoResponse
    /\ LET result == get_search_status(active_searches, search_id)
       IN  response' =
             IF result = None
             THEN [op |-> "get_search_status", args |-> <<search_id>>,
                   code |-> HTTP_404_NOT_FOUND, body |-> None]
             ELSE [op |-> "get_search_status", args |-> <<search_id>>,
                   code |-> HTTP_200_OK, body |-> result[1]]
    /\ UNCHANGED <<service, results_in, converted, settings, utilities>>

\* GET /search, search.py 78-85
ListSearches ==
    /\ response = NoResponse
    /\ response' = [op |-> "list_searches", args |-> None, code |-> HTTP_200_OK,
                    body |-> list_all_searches(active_searches, order)]
    /\ UNCHANGED <<service, results_in, converted, settings, utilities>>

\* GET /candidates, candidates.py 19-55
GetCandidates(search_id, min_score, verified_only) ==
    /\ response = NoResponse
    /\ response' = [op |-> "get_candidates",
                    args |-> <<search_id, min_score, verified_only>>,
                    code |-> HTTP_200_OK,
                    body |-> CandidateListResponse(active_searches, order, search_id,
                                                   min_score, verified_only)]
    /\ active_searches' = StoreAfterGetCandidates(active_searches, order, search_id)
    /\ UNCHANGED <<order, pc, calls, next_webset, results_in, converted, settings,
                   utilities>>

FirstWithId_OrFirst(candidates, candidate_id) ==
    LET Match(c) == c.id = candidate_id
        found == SelectSeq(candidates, Match)
    IN  IF found # <<>> THEN Some(Head(found))
        ELSE IF candidates # <<>> THEN Some(Head(candidates))
        ELSE None

\* next((c for c in all_candidates if c.id == candidate_id), None)
FirstWithId(candidates, candidate_id) ==
    LET Match(c) == c.id = candidate_id
        found == SelectSeq(candidates, Match)
    IN  IF found = <<>> THEN None ELSE Some(Head(found))

\* GET /candidates/{candidate_id}, candidates.py 64-83
GetCandidate(candidate_id) ==
    /\ response = NoResponse
    /\ LET candidate == FirstWithId(get_candidates(active_searches, order, None),
                                    candidate_id)
       IN  response' =
             IF candidate = None
             THEN [op |-> "get_candidate", args |-> <<candidate_id>>,
                   code |-> HTTP_404_NOT_FOUND, body |-> None]
             ELSE [op |-> "get_candidate", args |-> <<candidate_id>>,
                   code |-> HTTP_200_OK, body |-> candidate[1]]
    /\ active_searches' = StoreAfterGetCandidates(active_searches, order, None)
    /\ UNCHANGED <<order, pc, calls, next_webset, results_in, converted, settings,
                   utilities>>

\* The framework sends what the handler returned; the handlers do not yield to
\* the event loop, so requests are answered one at a time.
ResponseSent ==
    /\ response # NoResponse
    /\ response' = NoResponse
    /\ UNCHANGED <<service, results_in, converted, settings, utilities>>

CandidateIds == {ItemId(WebsetId(n), i) : n \in 1..MaxSearches, i \in 1..MaxItems}

\* SearchRequest, schemas.py 27-34: count is at least 1
Requests == {[query |-> Query(i), count |-> i] : i \in 1..MaxCount}

Next ==
    \/ \E request \in Requests, search_id \in Uuids : CreateSearch(request, search_id)
    \/ \E s \in SearchIds : RunStart(s)
    \/ \E s \in SearchIds : CreateReturns(s)
    \/ \E s \in SearchIds : CreateRaises(s)
    \/ \E s \in SearchIds, results \in ProviderResults : WaitReturns(s, results)
    \/ \E s \in SearchIds : WaitRaises(s)
    \/ \E search_id \in Uuids : GetSearchStatus(search_id)
    \/ ListSearches
    \/ \E search_id \in {None} \cup Uuids, min_score \in MinScoreArgs,
          verified_only \in BOOLEAN : GetCandidates(search_id, min_score, verified_only)
    \/ \E candidate_id \in CandidateIds : GetCandidate(candidate_id)
    \/ ResponseSent

Spec == Init /\ [][Next]_vars

\* ------------------------------------------------------------ the conversion alone
\* _convert_results_to_candidates applied to any list the provider may hand back
InitConvert ==
    /\ active_searches = <<>>
    /\ order = <<>>
    /\ pc = <<>>
    /\ calls = <<>>
    /\ next_webset = 1
    /\ response = NoResponse
    /\ results_in \in RawResults
    /\ converted = None
    /\ settings = DefaultSettings
    /\ UtilitiesIdle

Convert ==
    /\ converted = None
    /\ converted' =
         IF ConversionRaises(results_in)
         THEN Some([raised |-> TRUE, candidates |-> <<>>])
         ELSE Some([raised |-> FALSE,
                    candidates |-> _convert_results_to_candidates(results_in, WebsetId(1))])
    /\ UNCHANGED <<service, response, results_in, settings, utilities>>

NextConvert == Convert

SpecConvert == InitConvert /\ [][NextConvert]_vars


\* ------------------------------------------------------------ the finder, called from a script
DEFAULT_CHECK_INTERVAL == 10

\* finder.py 230-233: exa.websets.items.list(webset_id=webset_id, limit=limit)
ListCall(webset_id) == [op |-> "list", arg |-> webset_id, timeout |-> None]

\* how a call on the provider client ended; a call that has not ended is Pending
Pending == [kind |-> "pending", value |-> None]
Returned(value) == [kind |-> "returned", value |-> value]
Raised == [kind |-> "raised", value |-> None]

\* a call is issued on behalf of the caller's n-th unit of work; the script is
\* synchronous, so the call that ends is the one issued last
Issued(trace, n, call) == Append(trace, [for |-> n, call |-> call, outcome |-> Pending])
Settled(trace, outcome) == [trace EXCEPT ![Len(trace)].outcome = outcome]
LastCall(trace) == trace[Len(trace)].call

\* the items the provider lists for job w, n of them
JobItems(w, n) == [i \in 1..n |-> [id |-> ItemId(w, i), url |-> <<"url", w, i>>]]

\* finder.py 235-250: one dictionary per item, in the order of items.data
CandidateData(item) ==
    [id |-> item.id,
     url |-> item.url,
     title |-> IF "title" \in DOMAIN item THEN item.title ELSE None,
     verification |-> IF "verification" \in DOMAIN item THEN item.verification ELSE None]

finder_get_candidates(items) == [i \in 1..Len(items) |-> CandidateData(items[i])]

JobOf_FirstJob(webset_info) == WebsetId(1)

\* finder.py 288, 291: webset_info['id']
JobOf(webset_info) == webset_info[2]

\* finder.py 281-285, 150-157: search_and_wait is entered for the caller's n-th
\* unit of work and blocks in exa.websets.create
search_and_wait(n, criteria) ==
    /\ fpc' = [pc |-> "create", for |-> n, criteria |-> criteria,
               webset_info |-> None, value |-> None]
    /\ exa' = Issued(exa, n, CreateCall(criteria))

\* finder.py 163-168, 288, 196-199: create returned; wait_for_results is called
\* with its default timeout and blocks in exa.websets.wait_until_idle
SawCreateReturns ==
    /\ fpc.pc = "create"
    /\ LET webset_info == WebsetInfo(WebsetId(next_webset), fpc.criteria.query)
       IN  /\ fpc' = [fpc EXCEPT !.pc = "wait", !.webset_info = Some(webset_info)]
           /\ exa' = Issued(Settled(exa, Returned(WebsetId(next_webset))), fpc.for,
                            WaitCall(JobOf(webset_info), DEFAULT_WAIT_TIMEOUT,
                                     DEFAULT_CHECK_INTERVAL))
    /\ next_webset' = next_webset + 1
    /\ UNCHANGED <<active_searches, order, pc, calls, response, results_in, converted,
                   settings, batch, bpc, ret, callbacks, mpc, clock, input, output>>

\* finder.py 170-172: create raised; search_and_wait has no handler
SawCreateRaises ==
    /\ fpc.pc = "create"
    /\ fpc' = [fpc EXCEPT !.pc = "raised"]
    /\ exa' = Settled(exa, Raised)
    /\ UNCHANGED <<service, response, results_in, converted, settings,
                   batch, bpc, ret, callbacks, mpc, clock, input, output>>

\* finder.py 204, 291, 230-233: the wait returned; get_candidates is called and
\* blocks in exa.websets.items.list
SawWaitReturns ==
    /\ fpc.pc = "wait"
    /\ fpc' = [fpc EXCEPT !.pc = "list"]
    /\ exa' = Issued(Settled(exa, Returned(LastCall(exa).arg)), fpc.for,
                     ListCall(JobOf(fpc.webset_info[1])))
    /\ UNCHANGED <<service, response, results_in, converted, settings,
                   batch, bpc, ret, callbacks, mpc, clock, input, output>>

\* finder.py 206-208
SawWaitRaises ==
    /\ fpc.pc = "wait"
    /\ fpc' = [fpc EXCEPT !.pc = "raised"]
    /\ exa' = Settled(exa, Raised)
    /\ UNCHANGED <<service, response, results_in, converted, settings,
                   batch, bpc, ret, callbacks, mpc, clock, input, output>>

\* finder.py 235-254: the provider listed n items of the job it was asked for
SawListReturns(n) ==
    /\ fpc.pc = "list"
    /\ LET items == JobItems(LastCall(exa).arg, n)
       IN  /\ fpc' = [fpc EXCEPT !.pc = "returned",
                                 !.value = Some(finder_get_candidates(items))]
           /\ exa' = Settled(exa, Returned(items))
    /\ UNCHANGED <<service, response, results_in, converted, settings,
                   batch, bpc, ret, callbacks, mpc, clock, input, output>>

\* finder.py 256-258
SawListRaises ==
    /\ fpc.pc = "list"
    /\ fpc' = [fpc EXCEPT !.pc = "raised"]
    /\ exa' = Settled(exa, Raised)
    /\ UNCHANGED <<service, response, results_in, converted, settings,
                   batch, bpc, ret, callbacks, mpc, clock, input, output>>

\* examples.py 65-69: a script calls finder.search_and_wait
ScriptCall(criteria) ==
    /\ fpc.pc = "idle"
    /\ Len(ret) < MaxSearches
    /\ search_and_wait(Len(ret) + 1, criteria)
    /\ UNCHANGED <<service, response, results_in, converted, settings,
                   batch, bpc, ret, callbacks, mpc, clock, input, output>>

\* examples.py 65: the call hands its list, or its exception, to the script
ScriptReturn ==
    /\ fpc.pc \in {"returned", "raised"}
    /\ ret' = Append(ret, IF fpc.pc = "returned" THEN Returned(fpc.value[1]) ELSE Raised)
    /\ fpc' = [pc |-> "idle"]
    /\ UNCHANGED <<service, response, results_in, converted, settings,
                   batch, bpc, exa, callbacks, mpc, clock, input, output>>

ItemCounts == 0..MaxItems

NextFinder ==
    \/ \E criteria \in Requests : ScriptCall(criteria)
    \/ SawCreateReturns
    \/ SawCreateRaises
    \/ SawWaitReturns
    \/ SawWaitRaises
    \/ \E n \in ItemCounts : SawListReturns(n)
    \/ SawListRaises
    \/ ScriptReturn

SpecFinder == Init /\ [][NextFinder]_vars


\* ------------------------------------------------------------ BatchSearchManager
Names == {"a", "b"}

\* an Optional passed on as it is: the value, or None
Unwrap(opt) == IF opt = None THEN None ELSE opt[1]

\* utilities.py 132-139
NewSearch(name, criteria) ==
    [name |-> name, criteria |-> criteria, webset_id |-> None,
     status |-> "pending", results |-> None]

\* utilities.py 118-140
AddSearch(name, criteria) ==
    /\ bpc.pc = "idle"
    /\ Len(batch) < MaxSearches
    /\ batch' = Append(batch, NewSearch(name, criteria))
    /\ UNCHANGED <<service, response, results_in, converted, settings,
                   bpc, fpc, exa, ret, callbacks, mpc, clock, input, output>>

\* the provider call that run_all(parallel=True) blocks in
ParCall(ss, step) ==
    IF step.op = "create" THEN CreateCall(ss[step.i].criteria)
    ELSE IF step.op = "wait"
         THEN WaitCall(Unwrap(ss[step.i].webset_id), DEFAULT_WAIT_TIMEOUT,
                       DEFAULT_CHECK_INTERVAL)
         ELSE ListCall(Unwrap(ss[step.i].webset_id))

ParAfterCreate_WaitAtOnce(n, i) == [op |-> "wait", i |-> i]

\* utilities.py 153-166: the create loop goes on to the next search, and the
\* wait loop starts at the first search once the create loop is over
ParAfterCreate(n, i) ==
    IF i < n THEN [op |-> "create", i |-> i + 1] ELSE [op |-> "wait", i |-> 1]

\* utilities.py 164-169: after the fetch of search i the wait loop goes on
ParAfterList(n, i) ==
    IF i < n THEN [op |-> "wait", i |-> i + 1] ELSE [op |-> "done", i |-> i]

\* run_all moves to `step`: it blocks in that step's provider call or is over
ParGoto(ss, trace, step) ==
    /\ bpc' = [pc |-> step.op, parallel |-> TRUE, i |-> step.i]
    /\ exa' = IF step.op = "done" THEN trace
              ELSE Issued(trace, step.i, ParCall(ss, step))

\* utilities.py 142-180: run_all is called; with no search both loops are empty
RunAll(parallel) ==
    /\ bpc.pc = "idle"
    /\ fpc.pc = "idle"
    /\ IF batch = <<>>
       THEN /\ bpc' = [pc |-> "done", parallel |-> parallel, i |-> 0]
            /\ UNCHANGED <<fpc, exa>>
       ELSE IF parallel
            THEN /\ ParGoto(batch, exa, [op |-> "create", i |-> 1])
                 /\ UNCHANGED fpc
            ELSE /\ bpc' = [pc |-> "seq", parallel |-> FALSE, i |-> 1]
                 /\ search_and_wait(1, batch[1].criteria)
    /\ UNCHANGED <<service, response, results_in, converted, settings,
                   batch, ret, callbacks, mpc, clock, input, output>>

\* utilities.py 155-161
ParCreateReturns ==
    /\ bpc.pc = "create"
    /\ bpc.parallel
    /\ LET webset_info == WebsetInfo(WebsetId(next_webset), batch[bpc.i].criteria.query)
           ss == [batch EXCEPT ![bpc.i].webset_id = Some(JobOf(webset_info)),
                               ![bpc.i].status = "running"]
       IN  /\ batch' = ss
           /\ ParGoto(ss, Settled(exa, Returned(WebsetId(next_webset))),
                      ParAfterCreate(Len(batch), bpc.i))
    /\ next_webset' = next_webset + 1
    /\ UNCHANGED <<active_searches, order, pc, calls, response, results_in, converted,
                   settings, fpc, ret, callbacks, mpc, clock, input, output>>

\* utilities.py 166-167
ParWaitReturns ==
    /\ bpc.pc = "wait"
    /\ ParGoto(batch, Settled(exa, Returned(LastCall(exa).arg)),
               [op |-> "list", i |-> bpc.i])
    /\ UNCHANGED <<service, response, results_in, converted, settings,
                   batch, fpc, ret, callbacks, mpc, clock, input, output>>

\* utilities.py 167-169
ParListReturns(n) ==
    /\ bpc.pc = "list"
    /\ LET items == JobItems(LastCall(exa).arg, n)
       IN  /\ batch' = [batch EXCEPT ![bpc.i].results = Some(finder_get_candidates(items)),
                                     ![bpc.i].status = "completed"]
           /\ ParGoto(batch', Settled(exa, Returned(items)),
                      ParAfterList(Len(batch), bpc.i))
    /\ UNCHANGED <<service, response, results_in, converted, settings,
                   fpc, ret, callbacks, mpc, clock, input, output>>

\* run_all has no handler: a finder method that raises ends it
ParRaises ==
    /\ bpc.pc \in {"create", "wait", "list"}
    /\ bpc' = [bpc EXCEPT !.pc = "raised"]
    /\ exa' = Settled(exa, Raised)
    /\ UNCHANGED <<service, response, results_in, converted, settings,
                   batch, fpc, ret, callbacks, mpc, clock, input, output>>

\* utilities.py 172-180: search_and_wait came back for search i
SeqReturn ==
    /\ bpc.pc = "seq"
    /\ fpc.pc \in {"returned", "raised"}
    /\ IF fpc.pc = "raised"
       THEN /\ bpc' = [bpc EXCEPT !.pc = "raised"]
            /\ fpc' = [pc |-> "idle"]
            /\ UNCHANGED <<batch, exa>>
       ELSE /\ batch' = [batch EXCEPT ![bpc.i].results = Some(fpc.value[1]),
                                      ![bpc.i].status = "completed"]
            /\ IF bpc.i < Len(batch)
               THEN /\ bpc' = [bpc EXCEPT !.i = bpc.i + 1]
                    /\ search_and_wait(bpc.i + 1, batch[bpc.i + 1].criteria)
               ELSE /\ bpc' = [bpc EXCEPT !.pc = "done"]
                    /\ fpc' = [pc |-> "idle"]
                    /\ UNCHANGED exa
    /\ UNCHANGED <<service, response, results_in, converted, settings,
                   ret, callbacks, mpc, clock, input, output>>

\* utilities.py 182-188: a dict comprehension; a key met again takes the later value
RECURSIVE get_all_results(_)
get_all_results(ss) ==
    IF ss = <<>> THEN <<>>
    ELSE LET search == ss[Len(ss)]
             earlier == get_all_results(SubSeq(ss, 1, Len(ss) - 1))
         IN  IF search.results # None
             THEN Extend(earlier, search.name, search.results[1])
             ELSE earlier

\* the script reads the results once run_all is over (returned or raised)
GetAllResults ==
    /\ bpc.pc \in {"done", "raised"}
    /\ output = None
    /\ output' = Some(get_all_results(batch))
    /\ UNCHANGED <<service, response, results_in, converted, settings,
                   batch, bpc, fpc, exa, ret, callbacks, mpc, clock, input>>

NextBatch ==
    \/ \E name \in Names, criteria \in Requests : AddSearch(name, criteria)
    \/ \E parallel \in BOOLEAN : RunAll(parallel)
    \/ ParCreateReturns
    \/ ParWaitReturns
    \/ \E n \in ItemCounts : ParListReturns(n)
    \/ ParRaises
    \/ SawCreateReturns
    \/ SawCreateRaises
    \/ SawWaitReturns
    \/ SawWaitRaises
    \/ \E n \in ItemCounts : SawListReturns(n)
    \/ SawListRaises
    \/ SeqReturn
    \/ GetAllResults

SpecBatch == Init /\ [][NextBatch]_vars


\* ------------------------------------------------------------ CandidateFilter, CandidateExporter
\* A candidate is a dictionary; a value that may be None is None or a
\* one-element tuple.  The k-th candidate of an input list carries id k.
Numbered(kinds) == [k \in 1..Len(kinds) |-> [x \in {"id"} \cup DOMAIN kinds[k] |->
                                               IF x = "id" THEN k ELSE kinds[k][x]]]

\* dict.get(key): None when the key is missing
Get(c, key) == IF key \in DOMAIN c THEN c[key] ELSE None

\* `if value`: None and the empty string are false
IsTruthy(value) == value # None /\ value # Some("")

\* utilities.py 277-287
RECURSIVE DeduplicateFrom(_, _, _, _)
DeduplicateFrom(rest, key, seen, unique) ==
    IF rest = <<>> THEN unique
    ELSE LET candidate == Head(rest)
             value == Get(candidate, key)
         IN  IF IsTruthy(value) /\ value \notin seen
             THEN DeduplicateFrom(Tail(rest), key, seen \cup {value},
                                  Append(unique, candidate))
             ELSE DeduplicateFrom(Tail(rest), key, seen, unique)

\* utilities.py 265-287
deduplicate(candidates, key) == DeduplicateFrom(candidates, key, {}, <<>>)

\* the url and title that get_candidates gives a candidate (finder.py 239-240:
\* the title is None when the item has none)
DedupKinds == [url : {Some("u1"), Some("u2")}, title : {None, Some("t1")}]
DedupInputs ==
    {[op |-> "deduplicate", candidates |-> Numbered(kinds), key |-> key] :
       kinds \in BoundedSeq(DedupKinds, MaxLen), key \in {"url", "title"}}

Deduplicate ==
    /\ input # None
    /\ input[1].op = "deduplicate"
    /\ output = None
    /\ output' = Some(deduplicate(input[1].candidates, input[1].key))
    /\ UNCHANGED <<service, response, results_in, converted, settings,
                   batch, bpc, fpc, exa, ret, callbacks, mpc, clock, input>>

\* utilities.py 325: c.get('verification', {}) is the stored value when the key
\* is there, None included, and None has no attribute get
VerificationGetRaises(c) == "verification" \in DOMAIN c /\ c.verification = None

\* utilities.py 325: c.get('verification', {}).get('passed') == passed
VerificationMatches(c, passed) ==
    /\ "verification" \in DOMAIN c
    /\ "passed" \in DOMAIN c.verification[1]
    /\ c.verification[1].passed = passed

\* utilities.py 308-328: the comprehension stops at the first element that raises
filter_by_verification(candidates, passed) ==
    IF \E i \in 1..Len(candidates) : VerificationGetRaises(candidates[i])
    THEN [raised |-> TRUE, value |-> <<>>]
    ELSE LET Keep(c) == VerificationMatches(c, passed)
         IN  [raised |-> FALSE, value |-> SelectSeq(candidates, Keep)]

\* finder.py 242: the verification of a candidate is the item's, or None; a
\* dictionary built elsewhere may lack the key
VerificationKinds ==
    {[url |-> Some("u1")]}
      \cup [url : {Some("u1")},
            verification : {None, Some([passed |-> TRUE]), Some([passed |-> FALSE])}]
VerificationInputs ==
    {[op |-> "filter_by_verification", candidates |-> Numbered(kinds), passed |-> passed] :
       kinds \in BoundedSeq(VerificationKinds, MaxLen), passed \in BOOLEAN}

FilterByVerification ==
    /\ input # None
    /\ input[1].op = "filter_by_verification"
    /\ output = None
    /\ output' = Some(filter_by_verification(input[1].candidates, input[1].passed))
    /\ UNCHANGED <<service, response, results_in, converted, settings,
                   batch, bpc, fpc, exa, ret, callbacks, mpc, clock, input>>

\* A field name is a sequence of pieces, so that 'property_' can be put in
\* front of a key, looked for at the start, and taken out.
PropertyPrefix == "property_"

\* utilities.py 42: f'property_{key}'
PropertyField(key) == <<PropertyPrefix>> \o key

\* utilities.py 52: field.replace('property_', '') takes out every occurrence
ReplaceProperty(field) == LET Other(piece) == piece # PropertyPrefix IN SelectSeq(field, Other)

\* utilities.py 38-42: only the first candidate's properties give columns
DefaultFields(candidates) ==
    LET properties == candidates[1].properties
    IN  <<<<"id">>, <<"url">>, <<"title">>, <<"status">>>>
          \o [k \in 1..Len(properties) |-> PropertyField(properties[k].key)]

\* dict.get(name, ''): properties is the list of the dict's items in its order
PropertyGet(properties, name) ==
    LET Named(p) == p.key = name
        found == SelectSeq(properties, Named)
    IN  IF found = <<>> THEN "" ELSE found[1].value

\* utilities.py 49-55
CsvRow(candidate, fields) ==
    [j \in 1..Len(fields) |->
       IF fields[j][1] = PropertyPrefix
       THEN PropertyGet(candidate.properties, ReplaceProperty(fields[j]))
       ELSE IF fields[j][1] \in DOMAIN candidate THEN candidate[fields[j][1]] ELSE ""]

\* utilities.py 22-58 with fields=None: nothing is written for an empty list
to_csv(candidates) ==
    IF candidates = <<>> THEN [written |-> FALSE, header |-> <<>>, rows |-> <<>>]
    ELSE LET fields == DefaultFields(candidates)
         IN  [written |-> TRUE,
              header |-> fields,
              rows |-> [i \in 1..Len(candidates) |-> CsvRow(candidates[i], fields)]]

PropertyKeys == {<<"a">>, <<"b">>, <<PropertyPrefix, "a">>}
PropertyValues == {"v1", "v2"}

\* the dictionaries over PropertyKeys: lists of items with distinct keys
PropertyDicts ==
    {ps \in BoundedSeq([key : PropertyKeys, value : PropertyValues], 2) :
       \A i, j \in 1..Len(ps) : ps[i].key = ps[j].key => i = j}

CsvCandidates(props) ==
    [k \in 1..Len(props) |-> [id |-> IF k = 1 THEN "c1" ELSE IF k = 2 THEN "c2" ELSE "c3",
                              url |-> "u", title |-> "t", status |-> "s",
                              properties |-> props[k]]]
CsvInputs ==
    {[op |-> "to_csv", candidates |-> CsvCandidates(props)] :
       props \in BoundedSeq(PropertyDicts, MaxRows)}

ToCsv ==
    /\ input # None
    /\ input[1].op = "to_csv"
    /\ output = None
    /\ output' = Some(to_csv(input[1].candidates))
    /\ UNCHANGED <<service, response, results_in, converted, settings,
                   batch, bpc, fpc, exa, ret, callbacks, mpc, clock, input>>

\* a static utility is called once, on any of its inputs
InitStatic ==
    /\ active_searches = <<>>
    /\ order = <<>>
    /\ pc = <<>>
    /\ calls = <<>>
    /\ next_webset = 1
    /\ response = NoResponse
    /\ results_in = <<>>
    /\ converted = None
    /\ settings = DefaultSettings
    /\ batch = <<>>
    /\ bpc = [pc |-> "idle"]
    /\ fpc = [pc |-> "idle"]
    /\ exa = <<>>
    /\ ret = <<>>
    /\ callbacks = <<>>
    /\ mpc = [pc |-> "idle"]
    /\ clock = 0
    /\ \/ input \in {Some(i) : i \in DedupInputs}
       \/ input \in {Some(i) : i \in VerificationInputs}
       \/ input \in {Some(i) : i \in CsvInputs}
    /\ output = None

NextStatic ==
    \/ Deduplicate
    \/ FilterByVerification
    \/ ToCsv

SpecStatic == InitStatic /\ [][NextStatic]_vars


\* ------------------------------------------------------------ ProgressMonitor
CallbackNames == {"f", "g"}
Statuses == {"running", "idle"}
Timeouts == 0..MaxTimeout
Intervals == 0..MaxInterval
\* the ticks a provider request takes, and those a sleep takes beyond its interval
Delays == {0, 1}

\* utilities.py 220-227
AddCallback(callback) ==
    /\ mpc.pc = "idle"
    /\ Len(callbacks) < MaxCallbacks
    /\ callbacks' = Append(callbacks, callback)
    /\ UNCHANGED <<service, response, results_in, converted, settings,
                   batch, bpc, fpc, exa, ret, mpc, clock, input, output>>

\* utilities.py 229-237: monitor is called; start_time = time.time()
Monitor(interval, timeout) ==
    /\ mpc.pc = "idle"
    /\ mpc' = [pc |-> "top", interval |-> interval, timeout |-> timeout,
               start_time |-> clock, status |-> "none", k |-> 0, delivered |-> <<>>]
    /\ UNCHANGED <<service, response, results_in, converted, settings,
                   batch, bpc, fpc, exa, ret, callbacks, clock, input, output>>

Elapsed == clock - mpc.start_time

\* utilities.py 241
TimedOut(elapsed, timeout) == elapsed > timeout

\* utilities.py 240-245: the top of the loop: break, or ask the provider
LoopTop ==
    /\ mpc.pc = "top"
    /\ mpc' = [mpc EXCEPT !.pc = IF TimedOut(Elapsed, mpc.timeout) THEN "done" ELSE "status"]
    /\ UNCHANGED <<service, response, results_in, converted, settings,
                   batch, bpc, fpc, exa, ret, callbacks, clock, input, output>>

\* utilities.py 245, 248: get_webset_status returned; the callback loop starts
StatusReturns(status, delay) ==
    /\ mpc.pc = "status"
    /\ mpc' = [mpc EXCEPT !.pc = "callbacks", !.status = status, !.k = 1,
                          !.delivered = <<>>]
    /\ clock' = clock + delay
    /\ UNCHANGED <<service, response, results_in, converted, settings,
                   batch, bpc, fpc, exa, ret, callbacks, input, output>>

\* finder.py 332-334: get_webset_status re-raises, and monitor has no handler
StatusRaises ==
    /\ mpc.pc = "status"
    /\ mpc' = [mpc EXCEPT !.pc = "raised"]
    /\ UNCHANGED <<service, response, results_in, converted, settings,
                   batch, bpc, fpc, exa, ret, callbacks, clock, input, output>>

\* the call of callbacks[k] with the round's status, as the callback saw it
Delivery(k, raised) == [callback |-> callbacks[k], status |-> mpc.status, raised |-> raised]

AfterCallbackRaised_Break(n, k) == n + 1

\* utilities.py 251-252: the except clause prints, and the for loop goes on
AfterCallbackRaised(n, k) == k + 1

\* utilities.py 248-250: the callback returned
CallbackReturns ==
    /\ mpc.pc = "callbacks"
    /\ mpc.k <= Len(callbacks)
    /\ mpc' = [mpc EXCEPT !.k = mpc.k + 1,
                          !.delivered = Append(@, Delivery(mpc.k, FALSE))]
    /\ UNCHANGED <<service, response, results_in, converted, settings,
                   batch, bpc, fpc, exa, ret, callbacks, clock, input, output>>

\* utilities.py 248-252: the callback raised an Exception
CallbackRaises ==
    /\ mpc.pc = "callbacks"
    /\ mpc.k <= Len(callbacks)
    /\ mpc' = [mpc EXCEPT !.k = AfterCallbackRaised(Len(callbacks), mpc.k),
                          !.delivered = Append(@, Delivery(mpc.k, TRUE))]
    /\ UNCHANGED <<service, response, results_in, converted, settings,
                   batch, bpc, fpc, exa, ret, callbacks, clock, input, output>>

StatusIsIdle_Never(status) == FALSE

\* utilities.py 255
StatusIsIdle(status) == status = "idle"

\* utilities.py 255-259: the callback loop is over: break, or sleep
RoundEnds ==
    /\ mpc.pc = "callbacks"
    /\ mpc.k > Len(callbacks)
    /\ mpc' = [mpc EXCEPT !.pc = IF StatusIsIdle(mpc.status) THEN "done" ELSE "sleep"]
    /\ UNCHANGED <<service, response, results_in, converted, settings,
                   batch, bpc, fpc, exa, ret, callbacks, clock, input, output>>

\* utilities.py 259: time.sleep(interval) returns after at least interval
Sleep(delay) ==
    /\ mpc.pc = "sleep"
    /\ mpc' = [mpc EXCEPT !.pc = "top"]
    /\ clock' = clock + mpc.interval + delay
    /\ UNCHANGED <<service, response, results_in, converted, settings,
                   batch, bpc, fpc, exa, ret, callbacks, input, output>>

\* the steps of a running monitor
MonitorRuns ==
    \/ LoopTop
    \/ \E status \in Statuses, delay \in Delays : StatusReturns(status, delay)
    \/ StatusRaises
    \/ CallbackReturns
    \/ CallbackRaises
    \/ RoundEnds
    \/ \E delay \in Delays : Sleep(delay)

NextMonitor ==
    \/ \E callback \in CallbackNames : AddCallback(callback)
    \/ \E interval \in Intervals, timeout \in Timeouts : Monitor(interval, timeout)
    \/ MonitorRuns

SpecMonitor == Init /\ [][NextMonitor]_vars

\* monitor is one synchronous call: while it has a step to take it takes one
\* (the provider request and the callbacks return or raise, the sleep ends)
SpecMonitorFair == Init /\ [][NextMonitor]_vars /\ WF_vars(MonitorRuns)


\* ------------------------------------------------------------ the service under any configuration
\* the process starts with the settings its environment gives
InitSettings ==
    /\ active_searches = <<>>
    /\ order = <<>>
    /\ pc = <<>>
    /\ calls = <<>>
    /\ next_webset = 1
    /\ response = NoResponse
    /\ results_in = <<>>
    /\ converted = None
    /\ settings \in ConfiguredSettings
    /\ UtilitiesIdle

\* searches are created and run; the reads are left out
NextSettings ==
    \/ \E request \in Requests, search_id \in Uuids : CreateSearch(request, search_id)
    \/ \E s \in SearchIds : RunStart(s)
    \/ \E s \in SearchIds : CreateReturns(s)
    \/ \E s \in SearchIds : CreateRaises(s)
    \/ \E s \in SearchIds, results \in ProviderResults : WaitReturns(s, results)
    \/ \E s \in SearchIds : WaitRaises(s)
    \/ ResponseSent

SpecSettings == InitSettings /\ [][NextSettings]_vars


\* ------------------------------------------------------------ the service with its tasks scheduled
\* a step of the background task of search s (search_service.py 96-126)
TaskStep(s) ==
    /\ s \in SearchIds
    /\ \/ RunStart(s)
       \/ CreateReturns(s)
       \/ CreateRaises(s)
       \/ \E results \in ProviderResults : WaitReturns(s, results)
       \/ WaitRaises(s)

\* search_service.py 79, 101, 110: the event loop runs a task that create_task
\* scheduled, and a provider call made through to_thread returns or raises;
\* the reads change nothing a task reads and are left out
SpecRunFair == Init /\ [][NextSettings]_vars /\ \A s \in Uuids : WF_vars(TaskStep(s))

\* ============================================================ properties
Ops(cs) == [i \in 1..Len(cs) |-> cs[i].op]

\* a step of the task of s in which the create call, the wait call or the
\* conversion raises
RaisingStep(s) ==
    /\ pc'[s] # pc[s]
    /\ \/ CreateRaises(s)
       \/ WaitRaises(s)
       \/ \E results \in ProviderResults : ConversionRaises(results) /\ WaitReturns(s, results)

\* the wait call of s returns `results` and their conversion does not raise
CompletingStep(s, results) ==
    /\ pc'[s] # pc[s]
    /\ ~ConversionRaises(results)
    /\ WaitReturns(s, results)

\* C1: the run of every search issues the provider calls create, wait, list in
\* this order, and a search is COMPLETED (or its conversion has run) only after
\* all three were issued.
C1_CreateWaitList ==
    \A s \in SearchIds :
        (\/ active_searches[s].status = COMPLETED
         \/ active_searches[s].error = Some("conversion failed"))
        => Ops(calls[s]) = <<"create", "wait", "list">>

\* C2: a step of the task of s in which the create call, the wait call or the
\* conversion raises leaves s FAILED with an error message stored and no
\* candidates, ends the task normally, and changes no other entry; a FAILED
\* search whose task has ended is not changed again.
C2_RaiseEndsFailed ==
    [][\A s \in SearchIds :
         /\ RaisingStep(s) =>
              /\ active_searches'[s].status = FAILED
              /\ active_searches'[s].error # None
              /\ active_searches'[s].candidates = <<>>
              /\ pc'[s] = "done"
              /\ DOMAIN active_searches' = DOMAIN active_searches
              /\ \A o \in SearchIds \ {s} : active_searches'[o] = active_searches[o]
         /\ (pc[s] = "done" /\ active_searches[s].status = FAILED) =>
              /\ active_searches'[s] = active_searches[s]
              /\ pc'[s] = "done"]_vars

C2_Witness ==
    \E s \in SearchIds, o \in SearchIds :
        /\ s # o
        /\ pc[s] = "done"
        /\ active_searches[s].status = FAILED
        /\ active_searches[s].error = Some("conversion failed")
        /\ active_searches[s].candidates = <<>>
        /\ active_searches[o].status = COMPLETED
        /\ active_searches[o].candidates # <<>>

\* C3: a search that was created stays readable: in every step each existing
\* id keeps an entry whose status record carries the same query and
\* total_requested, a create step gives the new id a status record carrying
\* the request's query and count, and reading the status of an existing id
\* answers 200 with them.
C3_CreatedStaysReadable ==
    [][/\ \A s \in SearchIds :
            LET before == get_search_status(active_searches, s)
                after == get_search_status(active_searches', s)
            IN  /\ before # None
                /\ after # None
                /\ after[1].query = before[1].query
                /\ after[1].total_requested = before[1].total_requested
       /\ \A request \in Requests, id \in Uuids :
            CreateSearch(request, id) =>
              LET now == get_search_status(active_searches', id)
              IN  /\ now # None
                  /\ now[1].query = request.query
                  /\ now[1].total_requested = request.count
                  /\ response'.body.search_id = id
       /\ \A id \in SearchIds :
            GetSearchStatus(id) =>
              /\ response'.code = HTTP_200_OK
              /\ response'.body.query = active_searches[id].query
              /\ response'.body.total_requested = active_searches[id].count]_vars

C3_Witness ==
    /\ Len(order) = 2
    /\ response.op = "get_search_status"
    /\ response.code = HTTP_200_OK
    /\ response.body.search_id = order[1]
    /\ response.body.query = Query(2)
    /\ response.body.total_requested = 2
    /\ active_searches[order[1]].status = FAILED
    /\ active_searches[order[2]].status = COMPLETED

\* C4: a create step records the new search, with status PENDING, under an id
\* that no entry had, leaves the other entries alone, and answers 201 with that
\* id and status pending while no provider call has been issued for it; only
\* searches that have an entry have a task.
C4_CreateRecordsPending ==
    [][/\ \A request \in Requests, id \in Uuids :
            CreateSearch(request, id) =>
              /\ id \notin SearchIds
              /\ DOMAIN active_searches' = SearchIds \cup {id}
              /\ active_searches'[id].status = PENDING
              /\ \A o \in SearchIds : active_searches'[o] = active_searches[o]
              /\ response'.code = HTTP_201_CREATED
              /\ response'.body.search_id = id
              /\ response'.body.status = PENDING
              /\ calls'[id] = <<>>
              /\ pc'[id] = "scheduled"
       /\ DOMAIN pc' = DOMAIN active_searches'
       /\ \A s \in DOMAIN calls' : calls'[s] # <<>> => s \in DOMAIN active_searches]_vars

C4_Witness ==
    /\ Len(order) = 2
    /\ response.op = "create_search"
    /\ response.code = HTTP_201_CREATED
    /\ response.body.search_id = order[2]
    /\ active_searches[order[2]].status = PENDING
    /\ calls[order[2]] = <<>>
    /\ active_searches[order[1]].status = IN_PROGRESS
    /\ calls[order[1]] # <<>>

\* C5: a step in which the task of s advances changes no entry but that of
\* s; a search becomes COMPLETED only in such a step of its own task, the
\* return of its wait call, and that same step stores the conversion of what
\* the wait returned; and a status read answers with the status and the
\* candidates the entry holds at that moment.
C5_OwnEntryAndAtomicCompletion ==
    [][/\ \A s \in SearchIds :
            pc'[s] # pc[s] =>
              /\ \A o \in SearchIds \ {s} : active_searches'[o] = active_searches[o]
              /\ active_searches'[s].status = COMPLETED =>
                   \A results \in ProviderResults :
                     CompletingStep(s, results)
                     => active_searches'[s].candidates =
                          _convert_results_to_candidates(
                              results, active_searches[s].webset_id[2])
       /\ \A s \in SearchIds :
            (active_searches[s].status # COMPLETED /\ active_searches'[s].status = COMPLETED)
            => (pc[s] = "waiting" /\ pc'[s] = "done")
       /\ \A id \in SearchIds :
            GetSearchStatus(id) =>
              /\ response'.body.status = active_searches[id].status
              /\ response'.body.candidates = active_searches[id].candidates]_vars

C5_Witness ==
    /\ response.op = "get_search_status"
    /\ response.code = HTTP_200_OK
    /\ response.body.status = COMPLETED
    /\ response.body.candidates # <<>>
    /\ \E o \in SearchIds : o # response.body.search_id /\ pc[o] = "waiting"

\* C6: every candidate the conversion produces has score None when its item
\* has no verification or no criteria results, and otherwise a score equal to
\* 100 * (criteria results passed) / (criteria results), which lies in 0..100.
C6_ScoreIsPassedFraction ==
    (converted # None /\ ~converted[1].raised) =>
      LET candidates == converted[1].candidates
      IN  /\ Len(candidates) = Len(results_in)
          /\ \A i \in 1..Len(results_in) :
               LET crs == results_in[i].verification.criteria_results
                   passed == Cardinality({j \in 1..Len(crs) : crs[j].passed})
               IN  \E k \in 1..Len(candidates) :
                     /\ candidates[k].id = ItemId(WebsetId(1), i)
                     /\ IF ~results_in[i].verification.present \/ crs = <<>>
                        THEN candidates[k].score = None
                        ELSE /\ candidates[k].score # None
                             /\ candidates[k].score[2] > 0
                             /\ candidates[k].score[1] * Len(crs)
                                  = 100 * passed * candidates[k].score[2]
                             /\ candidates[k].score[1] >= 0
                             /\ candidates[k].score[1] <= 100 * candidates[k].score[2]

C6_Witness ==
    /\ converted # None
    /\ ~converted[1].raised
    /\ Len(converted[1].candidates) = 2
    /\ converted[1].candidates[1].score = <<50, 1>>
    /\ converted[1].candidates[2].score = None
    /\ converted[1].candidates[2].verification # None

ScoreOrZero(c) == IF c.score = None THEN <<0, 1>> ELSE c.score

NonIncreasing(candidates) ==
    \A i \in 1..(Len(candidates) - 1) :
        FracGeq(ScoreOrZero(candidates[i]), ScoreOrZero(candidates[i + 1]))

\* C7: the candidates stored for a completed search, and the candidates of
\* every answer of GET /candidates, are in order of non-increasing score, a
\* missing score counting as 0.
C7_OrderedByScore ==
    /\ \A s \in SearchIds :
         active_searches[s].status = COMPLETED
         => NonIncreasing(active_searches[s].candidates)
    /\ response.op = "get_candidates" => NonIncreasing(response.body.candidates)

C7_Witness ==
    /\ Len(order) = 2
    /\ response.op = "get_candidates"
    /\ response.args = <<None, None, FALSE>>
    /\ Len(response.body.candidates) = 2
    /\ Len(active_searches[order[1]].candidates) = 1
    /\ Len(active_searches[order[2]].candidates) = 1
    /\ active_searches[order[1]].candidates[1].score = <<0, 1>>
    /\ active_searches[order[2]].candidates[1].score = <<100, 1>>
    /\ response.body.candidates[1].score = <<100, 1>>

ScoreAtLeast(candidates, m) ==
    LET Keep(c) == c.score # None /\ FracGeq(c.score, <<m, 1>>)
    IN  SelectSeq(candidates, Keep)

\* C8: GET /candidates with min_score = m (and verified_only off) answers with
\* exactly the candidates of the selected scope whose score is at least m.
C8_MinScoreKeepsAtLeast ==
    [][\A search_id \in {None} \cup Uuids, m \in MinScores :
         GetCandidates(search_id, Some(m), FALSE)
         => response'.body.candidates =
              ScoreAtLeast(get_candidates(active_searches, order, search_id), m)]_vars

RECURSIVE Count(_, _)
Count(seq, x) ==
    IF seq = <<>> THEN 0
    ELSE (IF Head(seq) = x THEN 1 ELSE 0) + Count(Tail(seq), x)

RECURSIVE StoredCount(_, _)
StoredCount(ids, x) ==
    IF ids = <<>> THEN 0
    ELSE Count(active_searches[Head(ids)].candidates, x) + StoredCount(Tail(ids), x)

\* C9: GET /candidates without filters answers, without search_id, with every
\* stored candidate of every search as often as it is stored, and with
\* search_id = s with exactly the list stored for s; with any arguments total
\* is the number of candidates in the answer.
C9_AllOrOneSearch ==
    [][\A search_id \in {None} \cup Uuids, min_score \in MinScoreArgs,
          verified_only \in BOOLEAN :
         GetCandidates(search_id, min_score, verified_only)
         => LET got == response'.body.candidates
            IN  /\ response'.body.total = Len(got)
                /\ (min_score = None /\ ~verified_only) =>
                     IF search_id = None
                     THEN /\ \A i \in 1..Len(got) :
                               Count(got, got[i]) = StoredCount(order, got[i])
                          /\ \A s \in SearchIds :
                               \A i \in 1..Len(active_searches[s].candidates) :
                                 LET c == active_searches[s].candidates[i]
                                 IN  Count(got, c) = StoredCount(order, c)
                     ELSE IF search_id \in SearchIds
                          THEN got = active_searches[search_id].candidates
                          ELSE got = <<>>]_vars

C9_Witness ==
    /\ Len(order) = 2
    /\ response.op = "get_candidates"
    /\ response.args = <<None, None, FALSE>>
    /\ response.body.total = 2
    /\ Len(active_searches[order[1]].candidates) = 1
    /\ Len(active_searches[order[2]].candidates) = 1

Stored(candidate_id) ==
    \E s \in SearchIds : \E i \in 1..Len(active_searches[s].candidates) :
        active_searches[s].candidates[i].id = candidate_id

\* C10: the status of an id that has no entry is None at the service and 404
\* at the route, GET /candidates/{id} for an id no stored candidate has is 404,
\* and neither request changes active_searches.
C10_UnknownIs404 ==
    [][/\ \A search_id \in Uuids \ SearchIds :
            GetSearchStatus(search_id) =>
              /\ get_search_status(active_searches, search_id) = None
              /\ response'.code = HTTP_404_NOT_FOUND
              /\ active_searches' = active_searches
       /\ \A candidate_id \in CandidateIds :
            (GetCandidate(candidate_id) /\ ~Stored(candidate_id)) =>
              /\ response'.code = HTTP_404_NOT_FOUND
              /\ active_searches' = active_searches]_vars

C10_Witness ==
    /\ response.op = "get_candidate"
    /\ response.code = HTTP_404_NOT_FOUND
    /\ ~Stored(response.args[1])
    /\ \E s \in SearchIds : active_searches[s].candidates # <<>>

\* C11: the list of all searches holds, at the moment it is taken, exactly one
\* status record per search created since the start, in creation order, each
\* equal to what get_search_status returns for that id; the creation order is
\* the order in which the create steps happened.
C11_ListIsEveryStatusInOrder ==
    [][/\ ListSearches =>
            /\ Len(response'.body) = Len(order)
            /\ \A i \in 1..Len(order) :
                  /\ response'.body[i].search_id = order[i]
                  /\ Some(response'.body[i]) =
                       get_search_status(active_searches, order[i])
            /\ \A s \in SearchIds : \E i \in 1..Len(order) : order[i] = s
            /\ \A i, j \in 1..Len(order) : order[i] = order[j] => i = j
       /\ \A request \in Requests, id \in Uuids :
            CreateSearch(request, id) => order' = Append(order, id)
       /\ (DOMAIN active_searches' = SearchIds) => order' = order]_vars

C11_Witness ==
    /\ response.op = "list_searches"
    /\ Len(response.body) = 2
    /\ response.body[1].search_id = <<"uuid", 1>>
    /\ response.body[1].status = COMPLETED
    /\ response.body[1].total_found = 2
    /\ response.body[2].search_id = <<"uuid", 2>>
    /\ response.body[2].status = PENDING

\* the calls made for the n-th unit of work, in the order they were made
CallsFor(trace, n) == LET Mine(e) == e.for = n IN SelectSeq(trace, Mine)

IsPrefix(s, t) == Len(s) <= Len(t) /\ \A i \in 1..Len(s) : s[i] = t[i]

\* C13: every call of search_and_wait makes create, then wait, then list, each
\* only after the one before returned; wait and list are given the job id the
\* create call returned; the call returns the candidates built from the items
\* listed for that job, and if a step raised no later step was made and the
\* caller got the exception.
C13_CreateWaitListOnOwnJob ==
    \A n \in 1..MaxSearches :
      LET es == CallsFor(exa, n)
      IN  /\ IsPrefix([i \in 1..Len(es) |-> es[i].call.op], <<"create", "wait", "list">>)
          /\ \A i \in 1..Len(es) : i < Len(es) => es[i].outcome.kind = "returned"
          /\ \A i \in 2..Len(es) : es[i].call.arg = es[1].outcome.value
          /\ n <= Len(ret) =>
               /\ es # <<>>
               /\ es[Len(es)].outcome.kind # "pending"
               /\ ret[n].kind = es[Len(es)].outcome.kind
               /\ ret[n].kind = "returned" =>
                    /\ Len(es) = 3
                    /\ ret[n].value = finder_get_candidates(es[3].outcome.value)
                    /\ \A k \in 1..Len(ret[n].value) :
                         ret[n].value[k].id = ItemId(es[1].outcome.value, k)

C13_Witness ==
    /\ Len(ret) = 2
    /\ ret[1].kind = "raised"
    /\ Len(CallsFor(exa, 1)) = 2
    /\ ret[2].kind = "returned"
    /\ Len(ret[2].value) = 2
    /\ ret[2].value[1].id = ItemId(WebsetId(2), 1)

\* the position in the trace of the call `op` made for search i, 0 if none
PosOf(trace, op, i) ==
    LET ps == {p \in 1..Len(trace) : trace[p].for = i /\ trace[p].call.op = op}
    IN  IF ps = {} THEN 0 ELSE CHOOSE p \in ps : \A q \in ps : p <= q

\* what C12 says of the calls run_all has made so far
BatchTraceInOrder ==
    bpc.pc # "idle" =>
      /\ \A p \in 1..Len(exa) :
           /\ exa[p].for \in 1..Len(batch)
           /\ exa[p].call.op = "create" =>
                exa[p].call = CreateCall(batch[exa[p].for].criteria)
           \* in the order added: a call for a search comes after the same call
           \* for the search added just before it
           /\ exa[p].for > 1 =>
                LET q == PosOf(exa, exa[p].call.op, exa[p].for - 1)
                IN  q > 0 /\ q < p
           \* parallel: at a wait call every search has had its create call
           /\ (bpc.parallel /\ exa[p].call.op = "wait") =>
                \A i \in 1..Len(batch) :
                  LET q == PosOf(exa, "create", i)
                  IN  q > 0 /\ q < p
           \* sequential: at a create call the searches before are fetched
           /\ (~bpc.parallel /\ exa[p].call.op = "create") =>
                \A i \in 1..(exa[p].for - 1) :
                  LET c == PosOf(exa, "create", i)
                      w == PosOf(exa, "wait", i)
                      l == PosOf(exa, "list", i)
                  IN  /\ 0 < c /\ c < w /\ w < l /\ l < p
                      /\ exa[l].outcome.kind = "returned"
                      /\ batch[i].results # None
      /\ \A i \in 1..Len(batch), op \in {"create", "wait", "list"} :
           Cardinality({p \in 1..Len(exa) : exa[p].for = i /\ exa[p].call.op = op}) <= 1

\* C12: add_search appends, and in every state the calls made by run_all are
\* in the order of the batch: with parallel=True every search's create call
\* precedes the first wait call, with parallel=False the create, wait and fetch
\* of a search have finished before the next search's create call.
C12_CreateOrderOfRunAll ==
    [][/\ Len(batch') > Len(batch) =>
            /\ Len(batch') = Len(batch) + 1
            /\ \A i \in 1..Len(batch) : batch'[i] = batch[i]
       /\ bpc.pc # "idle" =>
            /\ Len(batch') = Len(batch)
            /\ \A i \in 1..Len(batch) : batch'[i].criteria = batch[i].criteria
       /\ BatchTraceInOrder']_vars

C12_Witness ==
    /\ bpc.pc = "list"
    /\ bpc.parallel
    /\ bpc.i = 2
    /\ Len(batch) = 2
    /\ Len(exa) = 6
    /\ exa[2].call.op = "create"
    /\ exa[3].call.op = "wait"
    /\ batch[1].results # None
    /\ batch[1].criteria # batch[2].criteria

C12_WitnessSequential ==
    /\ bpc.pc = "seq"
    /\ ~bpc.parallel
    /\ bpc.i = 2
    /\ fpc.pc = "create"
    /\ Len(exa) = 4

\* C14: once run_all is over, get_all_results has one entry for every search
\* whose results are set, and maps each such search's name to that search's
\* own results.
C14_OneEntryPerSearch ==
    (output # None /\ bpc.pc \in {"done", "raised"}) =>
      LET all_results == output[1]
          set == {i \in 1..Len(batch) : batch[i].results # None}
      IN  /\ Cardinality(DOMAIN all_results) = Cardinality(set)
          /\ \A i \in set :
               /\ batch[i].name \in DOMAIN all_results
               /\ all_results[batch[i].name] = batch[i].results[1]

\* C15: deduplicate returns a subsequence of its input in which no two
\* candidates have the same value of the key, the first candidate of every
\* value is kept, and deduplicating the result again changes nothing.
C15_DeduplicateKeepsFirsts ==
    (output # None /\ input[1].op = "deduplicate") =>
      LET candidates == input[1].candidates
          key == input[1].key
          unique == output[1]
      IN  /\ \A j \in 1..Len(unique) :
                /\ unique[j].id \in 1..Len(candidates)
                /\ unique[j] = candidates[unique[j].id]
                /\ j > 1 => unique[j - 1].id < unique[j].id
          /\ \A i, j \in 1..Len(unique) :
                Get(unique[i], key) = Get(unique[j], key) => i = j
          /\ \A i \in 1..Len(candidates) :
                (\A h \in 1..(i - 1) : Get(candidates[h], key) # Get(candidates[i], key))
                  => \E j \in 1..Len(unique) : unique[j] = candidates[i]
          /\ deduplicate(unique, key) = unique

\* C16: filter_by_verification does not raise and returns exactly the
\* candidates that have a verification whose passed flag equals the one given,
\* in the order of the input.
C16_FilterByVerificationTotal ==
    (output # None /\ input[1].op = "filter_by_verification") =>
      LET candidates == input[1].candidates
          HasFlag(c) == /\ "verification" \in DOMAIN c
                        /\ c.verification # None
                        /\ c.verification[1].passed = input[1].passed
      IN  /\ ~output[1].raised
          /\ output[1].value = SelectSeq(candidates, HasFlag)

\* C19: to_csv with the default fields writes a header and one row per
\* candidate, in input order, and the row of a candidate holds each of its
\* properties in the column property_<key>.
C19_EveryPropertyInItsColumn ==
    (output # None /\ input[1].op = "to_csv") =>
      LET candidates == input[1].candidates
          file == output[1]
      IN  /\ file.written
          /\ Len(file.rows) = Len(candidates)
          /\ \A i \in 1..Len(candidates) :
                /\ \E j \in 1..Len(file.header) :
                      file.header[j] = <<"id">> /\ file.rows[i][j] = candidates[i].id
                /\ \A k \in 1..Len(candidates[i].properties) :
                      \E j \in 1..Len(file.header) :
                        /\ file.header[j] = PropertyField(candidates[i].properties[k].key)
                        /\ file.rows[i][j] = candidates[i].properties[k].value

\* the calls every callback gets in a round with that status, in registration order
RoundOf(n, status) == [i \in 1..n |-> [callback |-> callbacks[i], status |-> status]]

Calls(delivered) ==
    [i \in 1..Len(delivered) |->
       [callback |-> delivered[i].callback, status |-> delivered[i].status]]

\* C17: in a round the callbacks registered so far are called one after the
\* other in registration order with the round's status, each once, whether or
\* not an earlier one raised; a raising callback leaves monitor in the round,
\* and the round ends into the idle check with every callback called.
C17_EveryCallbackOncePerRound ==
    [][/\ mpc'.pc = "callbacks" =>
            Calls(mpc'.delivered) = RoundOf(mpc'.k - 1, mpc'.status)
       /\ CallbackRaises =>
            /\ mpc'.pc = "callbacks"
            /\ mpc'.k = mpc.k + 1
       /\ (mpc.pc = "callbacks" /\ mpc'.pc # "callbacks") =>
            /\ mpc'.pc \in {"sleep", "done"}
            /\ Calls(mpc'.delivered) = RoundOf(Len(callbacks), mpc.status)
       /\ mpc.pc # "idle" => callbacks' = callbacks]_vars

C17_Witness ==
    /\ mpc.pc = "sleep"
    /\ callbacks = <<"f", "g">>
    /\ Len(mpc.delivered) = 2
    /\ mpc.delivered[1].raised
    /\ ~mpc.delivered[2].raised
    /\ mpc.delivered[2].callback = "g"
    /\ mpc.status = "running"

\* C18: monitor stops at the end of a round whose status is idle, after the
\* callbacks got that status, and goes on after any other round; once the
\* elapsed time exceeds the timeout no status request is issued and the top of
\* the loop stops; and if time advances again and again, or an idle status is
\* reported, monitor ends.
C18_StopsOnIdleOrTimeout ==
    /\ [][/\ (mpc.pc = "callbacks" /\ mpc'.pc # "callbacks") =>
               /\ (mpc.status = "idle") <=> (mpc'.pc = "done")
               /\ Calls(mpc.delivered) = RoundOf(Len(callbacks), mpc.status)
          /\ (mpc.pc # "idle" /\ Elapsed > mpc.timeout) =>
               /\ mpc.pc # "status" => mpc'.pc # "status"
               /\ mpc.pc = "top" => mpc'.pc = "done"
          /\ (mpc.pc = "top" /\ Elapsed <= mpc.timeout) => mpc'.pc = "status"]_vars
    /\ ([]<><<clock' > clock>>_clock \/ <>(mpc.pc = "callbacks" /\ mpc.status = "idle"))
         => <>(mpc.pc \in {"done", "raised"})

C18_Witness ==
    /\ mpc.pc = "done"
    /\ mpc.status = "idle"
    /\ Len(mpc.delivered) = 2
    /\ Elapsed > 0
    /\ Elapsed <= mpc.timeout

C18_WitnessTimeout ==
    /\ mpc.pc = "done"
    /\ mpc.status = "running"
    /\ Len(mpc.delivered) = 2
    /\ Elapsed > mpc.timeout

\* C20: every wait call the service has issued on the provider carries the
\* configured timeout and polls at the configured interval.
C20_WaitGovernedBySettings ==
    \A s \in SearchIds :
      \A i \in 1..Len(calls[s]) :
        calls[s][i].op = "wait" =>
          /\ calls[s][i].timeout = Some(settings.EXA_TIMEOUT)
          /\ calls[s][i].poll_interval = Some(settings.EXA_CHECK_INTERVAL)

\* C21: the provider calls issued for a search are at most one create followed
\* by at most one wait, and once a search is FAILED (a provider call or the
\* conversion raised) no step issues another provider call for it.
C21_OneCreateOneWaitNoRetry ==
    [][\A s \in DOMAIN calls' :
         /\ IsPrefix(Ops(calls'[s]), <<"create", "wait">>)
         /\ (s \in SearchIds /\ active_searches[s].status = FAILED) =>
              calls'[s] = calls[s]]_vars

C21_Witness ==
    /\ Len(order) = 2
    /\ active_searches[order[1]].error = Some("wait failed")
    /\ Ops(calls[order[1]]) = <<"create", "wait">>
    /\ active_searches[order[2]].error = Some("create failed")
    /\ Ops(calls[order[2]]) = <<"create">>

\* C22: the webset_id stored in a search's entry, and the job named in the
\* wait call issued for that search, is the job id the provider returned from
\* the create call, and nothing else.
C22_WebsetIdIsProviderJobId ==
    \A s \in SearchIds :
      /\ active_searches[s].webset_id # None =>
           \E n \in 1..MaxSearches : active_searches[s].webset_id = WebsetId(n)
      /\ \A i \in 1..Len(calls[s]) :
           calls[s][i].op = "wait" =>
             \E n \in 1..MaxSearches : calls[s][i].arg = WebsetId(n)

\* C23: a search enters as PENDING, and in every step its status stays as it
\* is, goes from PENDING to IN_PROGRESS, or goes from IN_PROGRESS to COMPLETED
\* or FAILED; so COMPLETED and FAILED are never left.
C23_StatusMovesForward ==
    [][/\ \A s \in SearchIds :
            LET before == active_searches[s].status
                after == active_searches'[s].status
            IN  \/ after = before
                \/ before = PENDING /\ after = IN_PROGRESS
                \/ before = IN_PROGRESS /\ after \in {COMPLETED, FAILED}
       /\ \A s \in (DOMAIN active_searches') \ SearchIds :
            active_searches'[s].status = PENDING]_vars

C23_Witness ==
    /\ Len(order) = 2
    /\ active_searches[order[1]].status = COMPLETED
    /\ active_searches[order[1]].candidates # <<>>
    /\ pc[order[1]] = "done"
    /\ active_searches[order[2]].status = IN_PROGRESS
    /\ pc[order[2]] = "waiting"

\* C24: every search that has been created eventually is COMPLETED or FAILED.
C24_EverySearchEnds ==
    \A s \in Uuids :
      (s \in SearchIds) ~>
        (s \in SearchIds /\ active_searches[s].status \in {COMPLETED, FAILED})

C24_Witness ==
    /\ Len(order) = 2
    /\ pc[order[1]] = "done"
    /\ pc[order[2]] = "done"
    /\ active_searches[order[1]].error = Some("conversion failed")
    /\ active_searches[order[2]].status = COMPLETED
    /\ active_searches[order[2]].candidates = <<>>

\* C25: a search that is PENDING, IN_PROGRESS or FAILED has no stored
\* candidate, and its status record reports total_found 0 and progress 0; for
\* every search the progress is min(100, 100 * total_found / total_requested),
\* a number from 0 to 100.
C25_ProgressFromStoredCandidates ==
    \A s \in SearchIds :
      LET record == get_search_status(active_searches, s)[1]
          found == Len(active_searches[s].candidates)
          requested == active_searches[s].count
      IN  /\ active_searches[s].status # COMPLETED =>
                /\ active_searches[s].candidates = <<>>
                /\ record.total_found = 0
                /\ record.progress_percent = <<0, 1>>
          /\ record.total_found = found
          /\ record.progress_percent =
               IF 100 * found >= 100 * requested THEN <<100, 1>>
               ELSE Fraction(100 * found, requested)
          /\ FracGeq(record.progress_percent, <<0, 1>>)
          /\ FracGeq(<<100, 1>>, record.progress_percent)

C25_Witness ==
    /\ Len(order) = 2
    /\ active_searches[order[1]].status = COMPLETED
    /\ active_searches[order[1]].count = 1
    /\ Len(active_searches[order[1]].candidates) = 2
    /\ get_search_status(active_searches, order[1])[1].progress_percent = <<100, 1>>
    /\ active_searches[order[2]].status = FAILED
    /\ active_searches[order[2]].count = 2

\* C26: a step that answers a read (the status of a search, the list of
\* searches, the candidates under any search id and filters, one candidate)
\* leaves active_searches as it was: the same entries in the same order, each
\* with the same status and the same candidate list.
C26_ReadsLeaveStoreAlone ==
    [][(response.op = "none" /\
        response'.op \in {"get_search_status", "list_searches",
                          "get_candidates", "get_candidate"}) =>
         /\ DOMAIN active_searches' = SearchIds
         /\ \A s \in SearchIds :
              /\ active_searches'[s].status = active_searches[s].status
              /\ active_searches'[s].candidates = active_searches[s].candidates
              /\ active_searches'[s] = active_searches[s]
         /\ order' = order]_vars

C26_Witness ==
    /\ response.op = "get_candidates"
    /\ response.args[1] = None
    /\ response.body.total = 2
    /\ Len(order) = 2
    /\ Len(active_searches[order[1]].candidates) = 1
    /\ Len(active_searches[order[2]].candidates) = 1

====
